---- MODULE Spec2Model ----
(***************************************************************************)
(* A model of the CHIP-8 interpreter engine (src/src/memory/memory.rs),    *)
(* its call stack (src/src/collections.rs) and its framebuffer             *)
(* (src/src/screen.rs).                                                    *)
(*                                                                         *)
(* A Rust panic (index out of bounds, unwrap of None) ends the run: the    *)
(* model records it in the flag "panicked" and takes no further step.      *)
(* The state left behind by a panicking handler is never observed by a     *)
(* caller, so the model leaves it as it was when the handler started.      *)
(***************************************************************************)
EXTENDS Integers, Sequences, FiniteSets, TLC

\* ------------------------------------------------------------------------
\* Program constants
\* ------------------------------------------------------------------------
MEM_SIZE == 4096
REGISTER_COUNT == 16
MEM_START == 512
WIDTH == 64
HEIGHT == 32

\* ------------------------------------------------------------------------
\* Bounds of the model
\* ------------------------------------------------------------------------
\* The capacity handed to Stack::new by the engine.  The source passes
\* MEM_SIZE (4096); the model runs the same stack code with a small capacity
\* so that the wrap of the top pointer is reached by short programs.
StackCap == 3
\* The number of fetch/execute calls made on one engine.
MaxSteps == 8
\* The largest capacity of a stack driven on its own.
MaxCap == 3
\* The number of push/pop calls made on a stack driven on its own.
MaxStackOps == 5
\* The values pushed on a stack driven on its own are 1 .. MaxValue.
MaxValue == 2
\* The number of load calls made on an engine that is only loaded.
MaxLoads == 2
\* The number of iterations of the driver's loop.
MaxIterations == 4

RegIdx == 0 .. (REGISTER_COUNT - 1)

\* ------------------------------------------------------------------------
\* u8 / u16 arithmetic
\* ------------------------------------------------------------------------
Pow2(i) == 2 ^ i

\* bit i (0 = least significant) of a
Bit(a, i) == (a \div Pow2(i)) % 2

RECURSIVE BitFold(_, _, _, _)
\* the number whose bit i is op[bit i of a][bit i of b], for i = 0 .. w-1
BitFold(op, a, b, w) ==
    IF w = 0 THEN 0
    ELSE op[Bit(a, w - 1)][Bit(b, w - 1)] * Pow2(w - 1) + BitFold(op, a, b, w - 1)

OrTable  == [p \in 0 .. 1 |-> [q \in 0 .. 1 |-> IF p + q > 0 THEN 1 ELSE 0]]
AndTable == [p \in 0 .. 1 |-> [q \in 0 .. 1 |-> p * q]]
XorTable == [p \in 0 .. 1 |-> [q \in 0 .. 1 |-> (p + q) % 2]]

\* a | b, a & b, a ^ b on u8
BitOr8(a, b)  == BitFold(OrTable, a, b, 8)
BitAnd8(a, b) == BitFold(AndTable, a, b, 8)
BitXor8(a, b) == BitFold(XorTable, a, b, 8)
\* a & b on u16
BitAnd16(a, b) == BitFold(AndTable, a, b, 16)

\* u8::wrapping_add
wrapping_add(a, b) == (a + b) % 256

\* u8::overflowing_add: the wrapped sum and whether it overflowed
overflowing_add(a, b) == <<(a + b) % 256, a + b > 255>>

\* Option<T>: None is the empty sequence, Some(v) the sequence <<v>>
None == <<>>
Some(v) == <<v>>

\* ------------------------------------------------------------------------
\* Stack<T> (collections.rs).  A stack is a record
\*   tail : the top pointer,  data : the Vec<Option<T>>,  cap : data.capacity()
\* and panic: whether an operation on it panicked.
\* ------------------------------------------------------------------------

\* Stack::new(size): Vec::with_capacity(size) holds no element; its
\* capacity() is taken to be size, which is what the standard allocator
\* gives, and no push reallocates since the Vec grows only below capacity.
Stack_new(size) == [tail |-> 0, data |-> <<>>, cap |-> size]

\* Stack::is_full
is_full(s) == s.tail = Len(s.data) /\ s.tail < s.cap

\* push_element with the overwrite of an occupied slot left out
push_element_no_overwrite(s, element) ==
    IF is_full(s)
    THEN [stack |-> [s EXCEPT !.data = Append(s.data, Some(element))],
          panic |-> FALSE]
    ELSE [stack |-> s, panic |-> s.tail >= Len(s.data)]

\* Stack::push_element.  data is 0-indexed in the source and 1-indexed here.
\* Yields [stack, panic]: indexing data[tail] with tail >= len panics.
push_element(s, element) ==
    IF is_full(s)
    THEN [stack |-> [s EXCEPT !.data = Append(s.data, Some(element))],
          panic |-> FALSE]
    ELSE IF s.tail >= Len(s.data)
         THEN [stack |-> s, panic |-> TRUE]
         ELSE [stack |-> [s EXCEPT !.data[s.tail + 1] = Some(element)],
               panic |-> FALSE]

\* push advancing the top pointer without the wrap to 0
push_no_wrap(s, element) ==
    LET r == push_element(s, element)
        t == r.stack
    IN  IF r.panic THEN r
        ELSE [stack |-> [t EXCEPT !.tail = t.tail + 1], panic |-> FALSE]

\* Stack::push
push(s, element) ==
    LET r == push_element(s, element)
        t == r.stack
    IN  IF r.panic THEN r
        ELSE [stack |-> [t EXCEPT !.tail = IF t.tail + 1 < t.cap
                                           THEN t.tail + 1
                                           ELSE 0],
              panic |-> FALSE]

\* the slot Stack::pop reads: tail - 1, or 0 when tail is 0
pop_slot(s) == IF s.tail = 0 THEN 0 ELSE s.tail - 1

\* pop reading the slot at the top pointer, not the one below it
pop_top_slot(s) ==
    LET prev == s.tail
    IN  IF prev >= Len(s.data)
        THEN [stack |-> s, value |-> None, panic |-> TRUE]
        ELSE [stack |-> [s EXCEPT !.tail = prev, !.data[prev + 1] = None],
              value |-> s.data[prev + 1],
              panic |-> FALSE]

\* Stack::pop.  Yields [stack, value, panic]; value is the Option returned.
\* Indexing data[prev] with prev >= len panics.
pop(s) ==
    LET prev == pop_slot(s)
    IN  IF prev >= Len(s.data)
        THEN [stack |-> s, value |-> None, panic |-> TRUE]
        ELSE [stack |-> [s EXCEPT !.tail = prev, !.data[prev + 1] = None],
              value |-> s.data[prev + 1],
              panic |-> FALSE]

\* ------------------------------------------------------------------------
\* Screen (screen.rs).  A screen is a record
\*   pixels        : the cells of the Vec<Vec<usize>> that hold 1, as a set
\*                   of <<x, y>>; every other cell of the WIDTH x HEIGHT grid
\*                   holds 0 (the code writes no other value than 0 and 1)
\*   update_screen : the dirty flag
\*   canvas        : the Option<Canvas>: some says whether one is attached,
\*                   bg the colour it was last filled with and white the
\*                   cells painted white over it
\* ------------------------------------------------------------------------
NoCanvas == [some |-> FALSE, bg |-> "none", white |-> {}]

Cells == (0 .. (WIDTH - 1)) \X (0 .. (HEIGHT - 1))

\* Screen::new
Screen_new(canvas) == [pixels |-> {}, update_screen |-> FALSE, canvas |-> canvas]

\* whether pixels[y][x] is inside the grid (outside, the index panics)
in_grid(x, y) == x >= 0 /\ x < WIDTH /\ y >= 0 /\ y < HEIGHT

\* Screen::get_pixel, for (x, y) inside the grid
get_pixel(scr, x, y) == IF <<x, y>> \in scr.pixels THEN 1 ELSE 0

\* a usize cell xor 1
xor_one(v) == IF v % 2 = 0 THEN v + 1 ELSE v - 1

\* Screen::set_pixel, for (x, y) inside the grid and v in {0, 1}
set_pixel(scr, x, y, v) ==
    [scr EXCEPT !.pixels = IF v = 0 THEN @ \ {<<x, y>>} ELSE @ \cup {<<x, y>>}]

\* update_pixel setting the cell instead of toggling it
update_pixel_set(scr, x, y) == set_pixel(scr, x, y, 1)

\* Screen::update_pixel, for (x, y) inside the grid
update_pixel(scr, x, y) == set_pixel(scr, x, y, xor_one(get_pixel(scr, x, y)))

\* clear with the last column left out of the loop (0 .. WIDTH - 1)
clear_short(scr) ==
    [scr EXCEPT !.pixels = {c \in @ : c[1] = WIDTH - 1},
                !.canvas = IF scr.canvas.some
                           THEN [some |-> TRUE, bg |-> "black", white |-> {}]
                           ELSE @]

\* Screen::clear: every cell is set to 0; an attached canvas is filled black
\* and presented.  update_screen is not assigned.
clear(scr) ==
    [scr EXCEPT !.pixels = @ \ Cells,
                !.canvas = IF scr.canvas.some
                           THEN [some |-> TRUE, bg |-> "black", white |-> {}]
                           ELSE @]

\* Screen::setup: an attached canvas is filled with RGB(0, 255, 255) and
\* presented
setup(scr) ==
    [scr EXCEPT !.canvas = IF scr.canvas.some
                           THEN [some |-> TRUE, bg |-> "cyan", white |-> {}]
                           ELSE @]

\* Screen::draw: every cell of an attached canvas is filled black when the
\* pixel is 0 and white when not, and the canvas is presented
draw(scr) ==
    [scr EXCEPT !.canvas = IF scr.canvas.some
                           THEN [some |-> TRUE, bg |-> "black", white |-> scr.pixels]
                           ELSE @]

\* ------------------------------------------------------------------------
\* Memory (memory.rs).  An engine is a record of the struct's fields
\*   I, pc, opcode, delay_timer, stack, V, memory, screen
\* and panicked: whether a call on it panicked.
\* memory holds the non-zero bytes of the [u8; MEM_SIZE] array as a function
\* from their addresses; every other address below MEM_SIZE holds 0.
\* ------------------------------------------------------------------------

\* Memory::new with pc starting at address 0
Memory_new_at_zero(screen) ==
    [I |-> 0,
     pc |-> 0,
     opcode |-> 0,
     delay_timer |-> 0,
     stack |-> Stack_new(StackCap),
     V |-> [i \in RegIdx |-> 0],
     memory |-> <<>>,
     screen |-> screen,
     panicked |-> FALSE]

\* Memory::new
Memory_new(screen) ==
    [I |-> 0,
     pc |-> MEM_START,
     opcode |-> 0,
     delay_timer |-> 0,
     stack |-> Stack_new(StackCap),
     V |-> [i \in RegIdx |-> 0],
     memory |-> <<>>,
     screen |-> screen,
     panicked |-> FALSE]

\* Memory::read_byte / self.memory[index], for index < MEM_SIZE
read_byte(m, index) == IF index \in DOMAIN m.memory THEN m.memory[index] ELSE 0

\* the engine after a panic
Panic(m) == [m EXCEPT !.panicked = TRUE]

\* load zeroing the bytes of memory outside the program's region
load_clearing_rest(m, program) ==
    IF MEM_START + Len(program) > MEM_SIZE THEN Panic(m)
    ELSE LET dest == MEM_START .. (MEM_START + Len(program) - 1)
             new  == {a \in dest : program[a - MEM_START + 1] # 0}
         IN  [m EXCEPT !.memory = [a \in new |-> program[a - MEM_START + 1]]]

\* Memory::load: copy_from_slice into memory[MEM_START .. MEM_START + len];
\* the slice's end past MEM_SIZE panics.
load(m, program) ==
    IF MEM_START + Len(program) > MEM_SIZE THEN Panic(m)
    ELSE LET dest == MEM_START .. (MEM_START + Len(program) - 1)
             keep == {a \in DOMAIN m.memory : a \notin dest}
             new  == {a \in dest : program[a - MEM_START + 1] # 0}
         IN  [m EXCEPT !.memory =
                  [a \in keep \cup new |->
                      IF a \in dest THEN program[a - MEM_START + 1] ELSE m.memory[a]]]

\* fetch with the low byte first
fetch_little_endian(m) ==
    IF m.pc + 1 >= MEM_SIZE THEN Panic(m)
    ELSE LET lo == read_byte(m, m.pc)
             hi == read_byte(m, m.pc + 1) * 256
         IN  [m EXCEPT !.opcode = hi + lo, !.pc = m.pc + 2]

\* Memory::fetch: memory[pc] or memory[pc + 1] past MEM_SIZE panics.
fetch(m) ==
    IF m.pc + 1 >= MEM_SIZE THEN Panic(m)
    ELSE LET hi == read_byte(m, m.pc) * 256
             lo == read_byte(m, m.pc + 1)
         IN  [m EXCEPT !.opcode = hi + lo, !.pc = m.pc + 2]

\* clear_screen zeroing memory as well as the screen
clear_screen_and_memory(m) == [m EXCEPT !.screen = clear(m.screen), !.memory = <<>>]

\* OPCODE 0x00E0
clear_screen(m) == [m EXCEPT !.screen = clear(m.screen)]

\* OPCODE 0x00EE: pop().unwrap() panics on None
return_from_subroutine(m) ==
    LET r == pop(m.stack)
    IN  IF r.panic \/ r.value = None THEN Panic(m)
        ELSE [m EXCEPT !.stack = r.stack, !.pc = r.value[1]]

\* OPCODE 0x1NNN
jump(m, nnn) == [m EXCEPT !.pc = nnn]

\* OPCODE 0x2NNN
call_subroutine(m, nnn) ==
    LET r == push(m.stack, m.pc)
    IN  IF r.panic THEN Panic(m)
        ELSE [m EXCEPT !.stack = r.stack, !.pc = nnn]

\* OPCODE 0x3XNN
skip_if_equal(m, x, nn) ==
    IF m.V[x] = nn THEN [m EXCEPT !.pc = m.pc + 2] ELSE m

\* skip_if_not_equal with the comparison of skip_if_equal
skip_if_not_equal_inverted(m, x, nn) ==
    IF m.V[x] = nn THEN [m EXCEPT !.pc = m.pc + 2] ELSE m

\* OPCODE 0x4XNN
skip_if_not_equal(m, x, nn) ==
    IF m.V[x] # nn THEN [m EXCEPT !.pc = m.pc + 2] ELSE m

\* OPCODE 0x5XY0
skip_if_registers_equal(m, x, y) ==
    IF m.V[x] = m.V[y] THEN [m EXCEPT !.pc = m.pc + 2] ELSE m

\* skip_if_registers_not_equal skipping only when V[x] is the greater
skip_if_registers_greater(m, x, y) ==
    IF m.V[x] > m.V[y] THEN [m EXCEPT !.pc = m.pc + 2] ELSE m

\* OPCODE 0x9XY0
skip_if_registers_not_equal(m, x, y) ==
    IF m.V[x] # m.V[y] THEN [m EXCEPT !.pc = m.pc + 2] ELSE m

\* set_register leaving the flag register V[0xF] alone
set_register_not_flag(m, x, nn) == IF x = 15 THEN m ELSE [m EXCEPT !.V[x] = nn]

\* OPCODE 0x6XNN
set_register(m, x, nn) == [m EXCEPT !.V[x] = nn]

\* add_immediate reporting the overflow in V[0xF]
add_immediate_carry(m, x, nn) ==
    [m EXCEPT !.V = [[m.V EXCEPT ![15] = IF m.V[x] + nn > 255 THEN 1 ELSE 0]
                        EXCEPT ![x] = wrapping_add(nn, m.V[x])]]

\* OPCODE 0x7XNN
add_immediate(m, x, nn) == [m EXCEPT !.V[x] = wrapping_add(nn, m.V[x])]

\* set_index keeping only the low byte of nnn
set_index_low_byte(m, nnn) == [m EXCEPT !.I = nnn % 256]

\* OPCODE 0xANNN
set_index(m, nnn) == [m EXCEPT !.I = nnn]

\* OPCODE 0x8XY0
set_vx_vy(m, x, y) == [m EXCEPT !.V[x] = m.V[y]]

\* OPCODE 0x8XY1
binary_or(m, x, y) == [m EXCEPT !.V[x] = BitOr8(m.V[x], m.V[y])]

\* OPCODE 0x8XY2
binary_and(m, x, y) == [m EXCEPT !.V[x] = BitAnd8(m.V[x], m.V[y])]

\* logical_xor computing the OR
logical_xor_as_or(m, x, y) == [m EXCEPT !.V[x] = BitOr8(m.V[x], m.V[y])]

\* OPCODE 0x8XY3
logical_xor(m, x, y) == [m EXCEPT !.V[x] = BitXor8(m.V[x], m.V[y])]

\* add_registers with V[0xF] assigned first, then V[x]
add_registers_flag_first(m, x, y) ==
    LET r == overflowing_add(m.V[x], m.V[y])
    IN  [m EXCEPT !.V = [[m.V EXCEPT ![15] = IF r[2] THEN 1 ELSE 0]
                            EXCEPT ![x] = r[1]]]

\* OPCODE 0x8XY4: V[x] is assigned first, then V[0xF]
add_registers(m, x, y) ==
    LET r == overflowing_add(m.V[x], m.V[y])
    IN  [m EXCEPT !.V = [[m.V EXCEPT ![x] = r[1]]
                            EXCEPT ![15] = IF r[2] THEN 1 ELSE 0]]

\* sprite_bit with the least significant bit leftmost
sprite_bit_lsb_first(sprite_data, x_val) == Bit(sprite_data, x_val) = 1

\* whether bit x_val of a sprite row is set, leftmost first:
\* sprite_data & (0x80 >> x_val) != 0
sprite_bit(sprite_data, x_val) == Bit(sprite_data, 7 - x_val) = 1

RECURSIVE display_row_bits(_, _, _, _, _, _)
\* The inner loop of Memory::display (for x_val in 0u8..8) from x_val on, in
\* row y_val with sprite row sprite_data: a set sprite bit reads the pixel
\* under it, sets V[0xF] when it reads 1, and toggles it.  get_pixel and
\* update_pixel panic outside the grid.
display_row_bits(m, vx, vy, y_val, sprite_data, x_val) ==
    IF x_val >= 8 \/ m.panicked THEN m
    ELSE IF ~sprite_bit(sprite_data, x_val)
         THEN display_row_bits(m, vx, vy, y_val, sprite_data, x_val + 1)
         ELSE LET x_coord == vx + x_val
                  y_coord == vy + y_val
              IN  IF ~in_grid(x_coord, y_coord) THEN Panic(m)
                  ELSE display_row_bits(
                         [m EXCEPT
                            !.V[15] = IF get_pixel(m.screen, x_coord, y_coord) = 1
                                      THEN 1 ELSE @,
                            !.screen = update_pixel(m.screen, x_coord, y_coord)],
                         vx, vy, y_val, sprite_data, x_val + 1)

RECURSIVE display_rows(_, _, _, _, _)
\* The outer loop of Memory::display (for y_val in 0..n) from y_val on.  The
\* sprite row memory[I + y_val] is read first; the read panics past MEM_SIZE.
display_rows(m, vx, vy, n, y_val) ==
    IF y_val >= n \/ m.panicked THEN m
    ELSE IF m.I + y_val >= MEM_SIZE THEN Panic(m)
         ELSE display_rows(
                display_row_bits(m, vx, vy, y_val, read_byte(m, m.I + y_val), 0),
                vx, vy, n, y_val + 1)

\* display reading the origin after V[0xF] is reset
display_reset_first(m, x, y, n) ==
    LET z  == [m EXCEPT !.V[15] = 0]
        vx == z.V[x] % WIDTH
        vy == z.V[y] % HEIGHT
        r  == display_rows(z, vx, vy, n, 0)
    IN  IF r.panicked THEN Panic(m)
        ELSE [r EXCEPT !.screen.update_screen = TRUE]

\* OPCODE 0xDXYN
display(m, x, y, n) ==
    LET vx == m.V[x] % WIDTH
        vy == m.V[y] % HEIGHT
        r  == display_rows([m EXCEPT !.V[15] = 0], vx, vy, n, 0)
    IN  IF r.panicked THEN Panic(m)
        ELSE [r EXCEPT !.screen.update_screen = TRUE]

\* the four nibbles of an opcode, highest first
nibbles(opcode) ==
    <<BitAnd16(opcode, 61440) \div 4096,
      BitAnd16(opcode, 3840) \div 256,
      BitAnd16(opcode, 240) \div 16,
      BitAnd16(opcode, 15)>>

\* Memory::execute: the match arms in the order of the source
execute(m) ==
    LET nib == nibbles(m.opcode)
        nnn == BitAnd16(m.opcode, 4095)
        nn  == BitAnd16(m.opcode, 255)
        x   == nib[2]
        y   == nib[3]
        n   == nib[4]
    IN  IF nib = <<0, 0, 14, 0>> THEN clear_screen(m)
        ELSE IF nib = <<0, 0, 14, 14>> THEN return_from_subroutine(m)
        ELSE IF nib[1] = 1 THEN jump(m, nnn)
        ELSE IF nib[1] = 2 THEN call_subroutine(m, nnn)
        ELSE IF nib[1] = 3 THEN skip_if_equal(m, x, nn)
        ELSE IF nib[1] = 4 THEN skip_if_not_equal(m, x, nn)
        ELSE IF nib[1] = 5 THEN skip_if_registers_equal(m, x, y)
        ELSE IF nib[1] = 9 THEN skip_if_registers_not_equal(m, x, y)
        ELSE IF nib[1] = 6 THEN set_register(m, x, nn)
        ELSE IF nib[1] = 7 THEN add_immediate(m, x, nn)
        ELSE IF nib[1] = 10 THEN set_index(m, nnn)
        ELSE IF nib[1] = 13 THEN display(m, x, y, n)
        ELSE IF nib[1] = 8 /\ nib[4] = 0 THEN set_vx_vy(m, x, y)
        ELSE IF nib[1] = 8 /\ nib[4] = 1 THEN binary_or(m, x, y)
        ELSE IF nib[1] = 8 /\ nib[4] = 2 THEN binary_and(m, x, y)
        ELSE IF nib[1] = 8 /\ nib[4] = 3 THEN logical_xor(m, x, y)
        ELSE IF nib[1] = 8 /\ nib[4] = 4 THEN add_registers(m, x, y)
        ELSE m

\* Memory::cycle_cpu
cycle_cpu(m) == LET f == fetch(m) IN IF f.panicked THEN f ELSE execute(f)

\* ------------------------------------------------------------------------
\* Inputs: the programs loaded and the screens the engine is built on
\* ------------------------------------------------------------------------

\* the opcode with nibbles a, b, c, d
Op(a, b, c, d) == a * 4096 + b * 256 + c * 16 + d
\* the opcode with first nibble a, register x and byte nn
OpXNN(a, x, nn) == a * 4096 + x * 256 + nn

\* the bytes of a list of opcodes, each high byte first
Bytes(words) ==
    [i \in 1 .. (2 * Len(words)) |->
        IF i % 2 = 1 THEN words[(i + 1) \div 2] \div 256
                     ELSE words[i \div 2] % 256]

\* the programs of memory/tests.rs
TestPrograms ==
    { <<1, 2, 3>>,
      <<255, 1, 1, 1, 240, 175>>,
      <<0, 224>>,
      <<26, 188>>,
      <<0, 0, 34, 8, 0, 0, 0, 0, 0, 224, 0, 238>>,
      <<99, 171, 96, 205, 111, 239>>,
      <<99, 255, 51, 255, 205, 239, 51, 2, 171, 205, 152, 118>>,
      <<99, 2, 67, 255, 205, 239, 67, 2, 171, 205, 152, 118>>,
      <<99, 170, 100, 170, 101, 187, 83, 64, 205, 239, 83, 80, 171, 205, 18, 52>>,
      <<99, 170, 100, 187, 101, 170, 147, 64, 205, 239, 147, 80, 171, 205, 18, 52>>,
      <<99, 1, 115, 4, 100, 255, 116, 1>> }

\* register indices and register values the generated programs use
SampleX == {0, 15}
SampleY == {1, 15}
SampleVals == {1, 128, 255}

\* V[x] := a; V[y] := b; then one two-register instruction, recognised or not
RegisterPrograms ==
    { Bytes(<<OpXNN(6, x, a), OpXNN(6, y, b), Op(k[1], x, y, k[2])>>) :
        x \in SampleX, y \in SampleY, a \in SampleVals, b \in SampleVals,
        k \in {<<8, 0>>, <<8, 1>>, <<8, 2>>, <<8, 3>>, <<8, 4>>, <<8, 5>>, <<8, 14>>,
               <<5, 0>>, <<5, 1>>, <<9, 0>>, <<9, 15>>} }

\* V[x] := a; then one instruction with an immediate byte, recognised or not
ImmediatePrograms ==
    { Bytes(<<OpXNN(6, x, a), OpXNN(k, x, b)>>) :
        x \in SampleX \cup {3}, a \in SampleVals, b \in SampleVals \cup {0},
        k \in {3, 4, 7, 11, 12, 14, 15} }

\* calls and returns: nested calls up to and past the stack's capacity, a
\* return with no call outstanding, jumps, calls to the end of memory
CallPrograms ==
    { Bytes(<<Op(2, 2, 0, 4), 0, Op(0, 0, 14, 14)>>),
      Bytes(<<Op(2, 2, 0, 2), Op(2, 2, 0, 6), 0, Op(0, 0, 14, 14)>>),
      Bytes(<<Op(2, 2, 0, 2), Op(2, 2, 0, 4), Op(2, 2, 0, 6), Op(0, 0, 14, 14)>>),
      Bytes(<<Op(2, 2, 0, 2), Op(2, 2, 0, 4), Op(0, 0, 14, 14), Op(0, 0, 14, 14)>>),
      Bytes(<<Op(2, 2, 0, 0)>>),
      Bytes(<<Op(0, 0, 14, 14)>>),
      Bytes(<<Op(2, 2, 0, 2), Op(0, 0, 14, 14), Op(0, 0, 14, 14)>>),
      Bytes(<<Op(1, 2, 0, 4), 0, Op(1, 2, 0, 0)>>),
      Bytes(<<Op(1, 15, 15, 14)>>),
      Bytes(<<Op(1, 15, 15, 15)>>),
      Bytes(<<Op(2, 15, 15, 14), Op(0, 0, 14, 14)>>),
      Bytes(<<Op(10, 1, 2, 3), Op(2, 2, 0, 4), Op(0, 1, 2, 3), Op(0, 0, 14, 14)>>) }

\* draws: I := a sprite inside the program, an origin, then the same draw
\* twice; clears after draws; sprites past the screen's edge or memory's end
DrawPrograms ==
    { Bytes(<<Op(10, 2, 0, 0), OpXNN(6, 0, a), Op(13, 0, 1, n), Op(13, 0, 1, n)>>) :
        a \in {0, 5, 60, 64}, n \in {0, 1, 3} }
    \cup
    { Bytes(<<Op(10, 2, 0, 0), OpXNN(6, 1, b), Op(13, 0, 1, 3), Op(13, 0, 1, 3)>>) :
        b \in {29, 30, 31, 33} }
    \cup
    { Bytes(<<Op(10, 2, 0, 0), Op(13, 0, 1, 2), OpXNN(6, 0, 1), Op(13, 0, 1, 2)>>),
      Bytes(<<Op(10, 2, 0, 0), Op(13, 15, 0, 2), Op(13, 15, 0, 2)>>),
      Bytes(<<Op(10, 2, 0, 0), Op(13, 0, 15, 2), Op(13, 0, 15, 2)>>),
      Bytes(<<Op(10, 2, 0, 0), Op(13, 0, 1, 2), Op(0, 0, 14, 0)>>),
      Bytes(<<Op(10, 2, 0, 0), Op(13, 0, 1, 4), Op(10, 2, 0, 2), Op(13, 0, 1, 4)>>),
      Bytes(<<Op(13, 0, 1, 15), Op(13, 0, 1, 15)>>),
      Bytes(<<Op(10, 15, 15, 15), Op(13, 0, 1, 1), Op(13, 0, 1, 2)>>),
      Bytes(<<Op(10, 15, 15, 15), Op(13, 0, 1, 0)>>) }

\* draws whose origin is read from the flag register: a sprite drawn at
\* (0, 0), V[0xF] := a, then the same sprite drawn at (V[0xF], 0) or
\* (0, V[0xF])
FlagDrawPrograms ==
    { Bytes(<<Op(10, 2, 0, 0), Op(13, 0, 1, 2), OpXNN(6, 15, a), Op(13, 15, 1, 2)>>) :
        a \in {2, 8, 64} }
    \cup
    { Bytes(<<Op(10, 2, 0, 0), Op(13, 0, 1, 2), OpXNN(6, 15, 1), Op(13, 1, 15, 2)>>) }

Programs ==
    TestPrograms \cup RegisterPrograms \cup ImmediatePrograms
        \cup CallPrograms \cup DrawPrograms \cup FlagDrawPrograms

\* The screens an engine is built on: a new screen, or (test_clear) a new
\* screen with every cell set to 1 by set_pixel.  The tests attach no canvas.
BlankScreen == Screen_new(NoCanvas)
FullScreen == [Screen_new(NoCanvas) EXCEPT !.pixels = Cells]

\* the programs run on the full screen
FullScreenPrograms ==
    { <<0, 224>>,
      Bytes(<<Op(10, 2, 0, 0), Op(13, 0, 1, 2), Op(0, 0, 14, 0)>>),
      Bytes(<<Op(10, 2, 0, 0), Op(13, 0, 1, 2), Op(13, 0, 1, 2)>>) }

\* ------------------------------------------------------------------------
\* State
\* ------------------------------------------------------------------------
VARIABLES
    I, pc, opcode, delay_timer, stack, V, memory, screen,  \* the engine's fields
    panicked,   \* a call on the engine panicked
    hist,       \* the calls made on the engine so far, oldest first: the
                \* call's name and the engine as it was before the call
    tstack,     \* a stack driven on its own
    tlog,       \* the calls made on tstack so far, oldest first: a push and
                \* the value pushed, or a pop and the Option it returned
    tpanicked   \* a call on tstack panicked

engineVars == <<I, pc, opcode, delay_timer, stack, V, memory, screen, panicked, hist>>
stackVars == <<tstack, tlog, tpanicked>>
vars == <<I, pc, opcode, delay_timer, stack, V, memory, screen, panicked, hist,
          tstack, tlog, tpanicked>>

\* the engine as one record
Self ==
    [I |-> I, pc |-> pc, opcode |-> opcode, delay_timer |-> delay_timer,
     stack |-> stack, V |-> V, memory |-> memory, screen |-> screen,
     panicked |-> panicked]

\* the engine becomes m
Becomes(m) ==
    /\ I' = m.I
    /\ pc' = m.pc
    /\ opcode' = m.opcode
    /\ delay_timer' = m.delay_timer
    /\ stack' = m.stack
    /\ V' = m.V
    /\ memory' = m.memory
    /\ screen' = m.screen
    /\ panicked' = m.panicked

\* the name of the last call made on the engine
LastCall == IF hist = <<>> THEN "new" ELSE hist[Len(hist)].call

\* the engine as it was before the last call
Before == hist[Len(hist)].was

\* ------------------------------------------------------------------------
\* The engine driven as its callers drive it: built on a screen, loaded
\* once, then fetch and execute, every execute right after a fetch.
\* ------------------------------------------------------------------------
\* the engine is m
Is(m) ==
    /\ I = m.I
    /\ pc = m.pc
    /\ opcode = m.opcode
    /\ delay_timer = m.delay_timer
    /\ stack = m.stack
    /\ V = m.V
    /\ memory = m.memory
    /\ screen = m.screen
    /\ panicked = m.panicked

Init ==
    /\ \E scr \in {BlankScreen, FullScreen} : Is(Memory_new(scr))
    /\ hist = <<>>
    /\ tstack = Stack_new(1)
    /\ tlog = <<>>
    /\ tpanicked = FALSE

\* memory.load(program), the first call on a new engine
Load ==
    /\ hist = <<>>
    /\ ~panicked
    /\ \E program \in IF screen = BlankScreen THEN Programs ELSE FullScreenPrograms :
          /\ Becomes(load(Self, program))
          /\ hist' = Append(hist, [call |-> "load", was |-> Self])
    /\ UNCHANGED stackVars

\* memory.fetch()
Fetch ==
    /\ hist # <<>>
    /\ Len(hist) <= MaxSteps
    /\ ~panicked
    /\ Becomes(fetch(Self))
    /\ hist' = Append(hist, [call |-> "fetch", was |-> Self])
    /\ UNCHANGED stackVars

\* memory.execute(), after a fetch
Execute ==
    /\ LastCall = "fetch"
    /\ Len(hist) <= MaxSteps
    /\ ~panicked
    /\ Becomes(execute(Self))
    /\ hist' = Append(hist, [call |-> "execute", was |-> Self])
    /\ UNCHANGED stackVars

Next == Load \/ Fetch \/ Execute

Spec == Init /\ [][Next]_vars

\* ------------------------------------------------------------------------
\* The driver (main.rs): a screen with a canvas is set up, the engine is
\* built on it and loaded, then the loop: tick, fetch, execute, the flush
\* of a dirty framebuffer, sleep.  The driver's engine is the Processor,
\* which the tests show to be Memory under another name; its tick is not
\* part of Memory.  hist records the calls of each iteration.
\* ------------------------------------------------------------------------

\* the canvas main builds, before Screen::setup
NewCanvas == [some |-> TRUE, bg |-> "none", white |-> {}]

\* Processor::tick: the delay timer counts down to 0, at the driver's rate
tick(m) ==
    [m EXCEPT !.delay_timer = IF m.delay_timer > 0 THEN m.delay_timer - 1 ELSE 0]

\* the driver's test of the dirty flag: processor.screen.update_screen
pending(m) == m.screen.update_screen

\* the driver's flush without the reset of the dirty flag
flush_keep_dirty(m) == [m EXCEPT !.screen = draw(m.screen)]

\* the driver's flush: processor.screen.draw(), then update_screen = false
flush(m) == [m EXCEPT !.screen = [draw(m.screen) EXCEPT !.update_screen = FALSE]]

\* the number of iterations of the loop begun so far
Iterations == Cardinality({i \in 1 .. Len(hist) : hist[i].call = "tick"})

DriverInit ==
    /\ Is(Memory_new(setup(Screen_new(NewCanvas))))
    /\ hist = <<>>
    /\ tstack = Stack_new(1)
    /\ tlog = <<>>
    /\ tpanicked = FALSE

\* load_file: the bytes of the ROM file are loaded
DriverLoad ==
    /\ hist = <<>>
    /\ \E program \in Programs :
          /\ Becomes(load(Self, program))
          /\ hist' = Append(hist, [call |-> "load", was |-> Self])
    /\ UNCHANGED stackVars

\* processor.tick(), at the head of an iteration
DriverTick ==
    /\ LastCall \in {"load", "sleep"}
    /\ Iterations < MaxIterations
    /\ ~panicked
    /\ Becomes(tick(Self))
    /\ hist' = Append(hist, [call |-> "tick", was |-> Self])
    /\ UNCHANGED stackVars

\* processor.fetch()
DriverFetch ==
    /\ LastCall = "tick"
    /\ ~panicked
    /\ Becomes(fetch(Self))
    /\ hist' = Append(hist, [call |-> "fetch", was |-> Self])
    /\ UNCHANGED stackVars

\* processor.execute()
DriverExecute ==
    /\ LastCall = "fetch"
    /\ ~panicked
    /\ Becomes(execute(Self))
    /\ hist' = Append(hist, [call |-> "execute", was |-> Self])
    /\ UNCHANGED stackVars

\* if processor.screen.update_screen { draw(); update_screen = false }
DriverDraw ==
    /\ LastCall = "execute"
    /\ ~panicked
    /\ pending(Self)
    /\ Becomes(flush(Self))
    /\ hist' = Append(hist, [call |-> "draw", was |-> Self])
    /\ UNCHANGED stackVars

\* thread::sleep, at the end of an iteration: after the flush, or after
\* the execute when the dirty flag is false
DriverSleep ==
    /\ \/ LastCall = "draw"
       \/ LastCall = "execute" /\ ~pending(Self)
    /\ ~panicked
    /\ hist' = Append(hist, [call |-> "sleep", was |-> Self])
    /\ UNCHANGED <<I, pc, opcode, delay_timer, stack, V, memory, screen, panicked>>
    /\ UNCHANGED stackVars

DriverNext ==
    DriverLoad \/ DriverTick \/ DriverFetch \/ DriverExecute \/ DriverDraw
        \/ DriverSleep

DriverSpec == DriverInit /\ [][DriverNext]_vars

\* ------------------------------------------------------------------------
\* An engine built on a new screen, without a canvas (the tests) or with
\* one (main), then driven as its callers drive it
\* ------------------------------------------------------------------------
NewInit ==
    /\ \E canvas \in {NoCanvas, NewCanvas} : Is(Memory_new(Screen_new(canvas)))
    /\ hist = <<>>
    /\ tstack = Stack_new(1)
    /\ tlog = <<>>
    /\ tpanicked = FALSE

NewSpec == NewInit /\ [][Next]_vars

\* ------------------------------------------------------------------------
\* An engine that is only loaded: built on a screen, then load calls, each
\* over what the one before left in memory
\* ------------------------------------------------------------------------
\* the programs loaded: those of memory/tests.rs, the empty program, the
\* longest program that fits above MEM_START, and one a byte longer
LongestProgram == [i \in 1 .. (MEM_SIZE - MEM_START) |-> i % 256]
LoadPrograms ==
    TestPrograms \cup {<<>>, LongestProgram, Append(LongestProgram, 7)}

\* memory.load(program); tlog records the program handed over
LoadProgram ==
    /\ Len(hist) < MaxLoads
    /\ ~panicked
    /\ \E program \in LoadPrograms :
          /\ Becomes(load(Self, program))
          /\ hist' = Append(hist, [call |-> "load", was |-> Self])
          /\ tlog' = Append(tlog, [call |-> "load", value |-> program])
    /\ UNCHANGED <<tstack, tpanicked>>

LoadNext == LoadProgram

LoadSpec == Init /\ [][LoadNext]_vars

\* ------------------------------------------------------------------------
\* A stack driven on its own: built with a capacity, then pushes and pops
\* ------------------------------------------------------------------------
StackInit ==
    /\ Is(Memory_new(BlankScreen))
    /\ hist = <<>>
    /\ \E size \in 1 .. MaxCap : tstack = Stack_new(size)
    /\ tlog = <<>>
    /\ tpanicked = FALSE

\* tstack.push(element)
StackPush ==
    /\ Len(tlog) < MaxStackOps
    /\ ~tpanicked
    /\ \E element \in 1 .. MaxValue :
          LET r == push(tstack, element)
          IN  /\ tstack' = r.stack
              /\ tpanicked' = r.panic
              /\ tlog' = Append(tlog, [call |-> "push", value |-> Some(element)])
    /\ UNCHANGED engineVars

\* tstack.pop()
StackPop ==
    /\ Len(tlog) < MaxStackOps
    /\ ~tpanicked
    /\ LET r == pop(tstack)
       IN  /\ tstack' = r.stack
           /\ tpanicked' = r.panic
           /\ tlog' = Append(tlog, [call |-> "pop", value |-> r.value])
    /\ UNCHANGED engineVars

StackNext == StackPush \/ StackPop

StackSpec == StackInit /\ [][StackNext]_vars

\* ------------------------------------------------------------------------
\* Either a stack driven on its own, or an engine loaded with a program of
\* calls and returns and driven as its callers drive it
\* ------------------------------------------------------------------------
\* memory.load(program) of a program of calls and returns
CallLoad ==
    /\ hist = <<>>
    /\ tlog = <<>>
    /\ \E program \in CallPrograms :
          /\ Becomes(load(Self, program))
          /\ hist' = Append(hist, [call |-> "load", was |-> Self])
    /\ UNCHANGED stackVars

LifoNext ==
    \/ CallLoad
    \/ Fetch
    \/ Execute
    \/ (hist = <<>> /\ StackPush)
    \/ (hist = <<>> /\ StackPop)

LifoSpec == StackInit /\ [][LifoNext]_vars

\* ------------------------------------------------------------------------
\* Properties
\* ------------------------------------------------------------------------

\* the last call on the engine was an execute, and it returned
Executed == LastCall = "execute" /\ ~panicked

\* the operands of the opcode register
OpN1 == nibbles(opcode)[1]
OpX == nibbles(opcode)[2]
OpY == nibbles(opcode)[3]
OpN == nibbles(opcode)[4]
OpNN == opcode % 256

\* the last four calls were the fetch and execute of a call 0x2nnn and the
\* fetch and execute of a return 0x00EE
CallThenReturn ==
    LET n == Len(hist)
    IN  /\ n >= 4
        /\ hist[n].call = "execute" /\ hist[n].was.opcode = 238
        /\ hist[n - 1].call = "fetch"
        /\ hist[n - 2].call = "execute" /\ hist[n - 2].was.opcode \div 4096 = 2
        /\ hist[n - 3].call = "fetch"

\* C1: a call 0x2nnn (fetch, execute) followed at once by a return 0x00EE
\* (fetch, execute) leaves pc at the value it held right after the call's
\* fetch, whatever number of calls is outstanding.
C1_CallThenReturnRestoresPc ==
    CallThenReturn =>
        /\ ~panicked
        /\ pc = hist[Len(hist) - 3].was.pc + 2

\* the calls on tstack so far are cap + 1 pushes and then one pop
PushedPastCapacityThenPopped ==
    LET k == tstack.cap
    IN  /\ Len(tlog) = k + 2
        /\ \A i \in 1 .. (k + 1) : tlog[i].call = "push"
        /\ tlog[k + 2].call = "pop"

\* C2: on a new stack of capacity K >= 1, K + 1 pushes and then one pop
\* return the (K+1)-th value pushed.
C2_WraparoundOverwrite ==
    PushedPastCapacityThenPopped =>
        /\ ~tpanicked
        /\ tlog[tstack.cap + 2].value = tlog[tstack.cap + 1].value

\* C2 happens: capacity 2 or more, the first and the last value pushed
\* differ, and the pop returned the last.
C2_Witness ==
    /\ PushedPastCapacityThenPopped
    /\ tstack.cap >= 2
    /\ tlog[1].value # tlog[tstack.cap + 1].value
    /\ tlog[tstack.cap + 2].value = tlog[tstack.cap + 1].value

\* an add-carry 0x8xy4 was executed
ExecutedAddCarry == Executed /\ OpN1 = 8 /\ OpN = 4

\* the sum the add-carry formed, before truncation
AddCarrySum == Before.V[OpX] + Before.V[OpY]

\* C3 as claimed: after 0x8xy4, for all x and y, V[0xF] is 1 iff the old
\* V[x] + V[y] is 256 or more, else 0, and V[x] is the sum mod 256.
C3_AddCarryEveryX ==
    ExecutedAddCarry =>
        /\ V[15] = (IF AddCarrySum >= 256 THEN 1 ELSE 0)
        /\ V[OpX] = AddCarrySum % 256

\* C3 as amended: after 0x8xy4, for all x and y, V[0xF] is 1 iff the old
\* V[x] + V[y] is 256 or more, else 0; V[x] is the sum mod 256 when x is not
\* 0xF.
C3_AddCarry ==
    ExecutedAddCarry =>
        /\ V[15] = (IF AddCarrySum >= 256 THEN 1 ELSE 0)
        /\ (OpX # 15 => V[OpX] = AddCarrySum % 256)

\* C3 happens: an add-carry into a register other than V[0xF] overflowed.
C3_Witness ==
    /\ ExecutedAddCarry
    /\ AddCarrySum >= 256
    /\ OpX # 15
    /\ V[OpX] = AddCarrySum - 256
    /\ V[15] = 1

\* an add-imm 0x7xnn was executed
ExecutedAddImmediate == Executed /\ OpN1 = 7

\* C4: after 0x7xnn, V[x] is (old V[x] + nn) mod 256 and every other
\* register, pc, I and the stack are as before.
C4_AddImmediate ==
    ExecutedAddImmediate =>
        /\ V[OpX] = (Before.V[OpX] + OpNN) % 256
        /\ \A r \in RegIdx \ {OpX} : V[r] = Before.V[r]
        /\ pc = Before.pc
        /\ I = Before.I
        /\ stack = Before.stack

\* C4 happens: an add-imm wrapped past 255 and V[0xF] stayed 0.
C4_Witness ==
    /\ ExecutedAddImmediate
    /\ Before.V[OpX] + OpNN >= 256
    /\ OpX # 15
    /\ V[OpX] = Before.V[OpX] + OpNN - 256
    /\ V[15] = 0

\* a clear-screen 0x00E0 was executed
ExecutedClear == Executed /\ opcode = 224

\* every cell of the framebuffer reads 0
AllCellsZero == \A c \in Cells : get_pixel(screen, c[1], c[2]) = 0

WordAt(m, a) == read_byte(m, a) * 256 + read_byte(m, a + 1)

\* the engine's registers, I, pc, stack, memory and framebuffer are those of m
SameButOpcode(m) ==
    /\ V = m.V
    /\ I = m.I
    /\ pc = m.pc
    /\ stack = m.stack
    /\ memory = m.memory
    /\ screen = m.screen

\* the last four calls were the fetch and execute of a draw 0xDxyn and the
\* fetch and execute of the same opcode again
DrawnTwice ==
    LET n == Len(hist)
    IN  /\ n >= 4
        /\ ~panicked
        /\ hist[n].call = "execute" /\ hist[n - 1].call = "fetch"
        /\ hist[n - 2].call = "execute" /\ hist[n - 3].call = "fetch"
        /\ hist[n].was.opcode = hist[n - 2].was.opcode
        /\ hist[n].was.opcode \div 4096 = 13

\* the engine before the first and before the second of the two draws
FirstDraw == hist[Len(hist) - 2].was
SecondDraw == hist[Len(hist)].was

\* I, the sprite's bytes and the origin (V[x], V[y]) were the same at both
SameSpriteAndOrigin ==
    /\ FirstDraw.I = SecondDraw.I
    /\ \A r \in 0 .. (OpN - 1) :
          read_byte(FirstDraw, FirstDraw.I + r) = read_byte(SecondDraw, SecondDraw.I + r)
    /\ FirstDraw.V[OpX] = SecondDraw.V[OpX]
    /\ FirstDraw.V[OpY] = SecondDraw.V[OpY]

\* just before the second draw, some cell under a set bit of the sprite read 1
SecondDrawCollides ==
    \E r \in 0 .. (OpN - 1), b \in 0 .. 7 :
        /\ Bit(read_byte(SecondDraw, SecondDraw.I + r), 7 - b) = 1
        /\ <<(SecondDraw.V[OpX] % WIDTH) + b, (SecondDraw.V[OpY] % HEIGHT) + r>>
              \in SecondDraw.screen.pixels

\* C6: the same draw 0xDxyn executed twice in a row, with I, the sprite's
\* bytes and the origin unchanged, leaves every cell of the framebuffer as it
\* was before the first, and the second leaves V[0xF] = 1 when a cell under
\* a set bit of the sprite read 1 just before it.
C6_DrawTwiceRestores ==
    (DrawnTwice /\ SameSpriteAndOrigin) =>
        /\ \A c \in Cells :
              get_pixel(screen, c[1], c[2]) = get_pixel(FirstDraw.screen, c[1], c[2])
        /\ (SecondDrawCollides => V[15] = 1)

\* C6 happens: the first draw changed the framebuffer, the second met set
\* cells and put it back.
C6_Witness ==
    /\ DrawnTwice
    /\ SameSpriteAndOrigin
    /\ SecondDraw.screen.pixels # FirstDraw.screen.pixels
    /\ SecondDrawCollides
    /\ V[15] = 1
    /\ screen.pixels = FirstDraw.screen.pixels

\* the patterns the claim C7 lists as recognised
ListedPattern(op) ==
    LET nib == <<op \div 4096, (op \div 256) % 16, (op \div 16) % 16, op % 16>>
    IN  \/ op = 224
        \/ op = 238
        \/ nib[1] \in {1, 2, 3, 4, 6, 7, 10, 13}
        \/ (nib[1] \in {5, 9} /\ nib[4] = 0)
        \/ (nib[1] = 8 /\ nib[4] \in 0 .. 4)

\* C7: the execute of an opcode matching none of 00E0, 00EE, 1nnn, 2nnn,
\* 3xnn, 4xnn, 5xy0, 9xy0, 6xnn, 7xnn, Annn, 8xy0..8xy4, Dxyn leaves pc, I,
\* the registers, the stack, memory and the framebuffer unchanged.
C7_UnlistedOpcodeIsNoOp ==
    (LastCall = "execute" /\ ~ListedPattern(opcode)) =>
        (~panicked /\ SameButOpcode(Before))

\* a skip on an immediate, 0x3xnn or 0x4xnn, was executed
ExecutedImmediateSkip == Executed /\ OpN1 \in {3, 4}

\* the condition of the skip on an immediate that m is about to execute
ImmediateSkipHolds(m) ==
    LET x == (m.opcode \div 256) % 16
        nn == m.opcode % 256
    IN  IF m.opcode \div 4096 = 3 THEN m.V[x] = nn ELSE m.V[x] # nn

\* the last three calls were the fetch and execute of a skip on an immediate
\* and a fetch that returned
FetchedAfterImmediateSkip ==
    LET n == Len(hist)
    IN  /\ n >= 3
        /\ ~panicked
        /\ hist[n].call = "fetch"
        /\ hist[n - 1].call = "execute"
        /\ hist[n - 1].was.opcode \div 4096 \in {3, 4}
        /\ hist[n - 2].call = "fetch"

\* C8: 0x3xnn adds 2 to pc iff V[x] = nn and 0x4xnn iff V[x] # nn, else pc is
\* unchanged; registers, I, stack and framebuffer are unchanged; the next
\* fetch returns the word 4 bytes after the skip when the condition holds
\* and the word 2 bytes after it when not.
C8_ImmediateSkips ==
    /\ ExecutedImmediateSkip =>
          /\ pc = Before.pc + (IF ImmediateSkipHolds(Before) THEN 2 ELSE 0)
          /\ V = Before.V
          /\ I = Before.I
          /\ stack = Before.stack
          /\ screen = Before.screen
    /\ FetchedAfterImmediateSkip =>
          LET skip == hist[Len(hist) - 1].was
              at == hist[Len(hist) - 2].was.pc
          IN  opcode = WordAt(Self, at + (IF ImmediateSkipHolds(skip) THEN 4 ELSE 2))

\* C8 happens: a skip was taken and the next fetch returned the word 4 bytes
\* after it, which differs from the word 2 bytes after it.
C8_Witness ==
    /\ FetchedAfterImmediateSkip
    /\ ImmediateSkipHolds(hist[Len(hist) - 1].was)
    /\ opcode = WordAt(Self, hist[Len(hist) - 2].was.pc + 4)
    /\ opcode # WordAt(Self, hist[Len(hist) - 2].was.pc + 2)

\* a skip on two registers, 0x5xy0 or 0x9xy0, was executed
ExecutedRegisterSkip == Executed /\ OpN1 \in {5, 9} /\ OpN = 0

FetchedTwice ==
    LET n == Len(hist)
    IN  /\ n >= 2
        /\ ~panicked
        /\ hist[n].call = "fetch"
        /\ hist[n - 1].call = "fetch"

\* C10: for pc + 1 inside memory, fetch sets the opcode register to
\* memory[pc] * 256 + memory[pc + 1] and then pc to pc + 2, and leaves the
\* registers, I, the stack, memory and the framebuffer unchanged; two
\* fetches in a row return two consecutive words.
C10_Fetch ==
    /\ (LastCall = "fetch" /\ Before.pc + 1 < MEM_SIZE) =>
          /\ ~panicked
          /\ opcode = read_byte(Before, Before.pc) * 256 + read_byte(Before, Before.pc + 1)
          /\ pc = Before.pc + 2
          /\ V = Before.V
          /\ I = Before.I
          /\ stack = Before.stack
          /\ memory = Before.memory
          /\ screen = Before.screen
    /\ FetchedTwice =>
          LET first == hist[Len(hist) - 1].was.pc
          IN  /\ Before.opcode = WordAt(Self, first)
              /\ opcode = WordAt(Self, first + 2)

\* C10 happens: two fetches in a row returned 0xFF01 and then 0x0101.
C10_Witness ==
    /\ FetchedTwice
    /\ Before.opcode = 65281
    /\ opcode = 257

\* a set-imm 0x6xnn was executed
ExecutedSetRegister == Executed /\ OpN1 = 6

\* C11: after 0x6xnn, for every x in 0 .. 15 (0xF included) and every nn,
\* V[x] is nn and every other register, pc, I and the stack are as before.
C11_SetRegister ==
    ExecutedSetRegister =>
        /\ V[OpX] = OpNN
        /\ \A r \in RegIdx \ {OpX} : V[r] = Before.V[r]
        /\ pc = Before.pc
        /\ I = Before.I
        /\ stack = Before.stack

\* C11 happens: a set-imm gave the flag register V[0xF] a new value while
\* another register held a value of its own.
C11_Witness ==
    /\ ExecutedSetRegister
    /\ OpX = 15
    /\ Before.V[15] # OpNN
    /\ V[15] = OpNN
    /\ \E r \in RegIdx \ {15} : V[r] # 0 /\ V[r] # OpNN

\* the number of executes among the first k calls whose opcode satisfies
\* the test: calls 0x2nnn, and returns 0x00EE
CallsExecuted(k) ==
    Cardinality({i \in 1 .. k :
        hist[i].call = "execute" /\ hist[i].was.opcode \div 4096 = 2})
ReturnsExecuted(k) ==
    Cardinality({i \in 1 .. k :
        hist[i].call = "execute" /\ hist[i].was.opcode = 238})

\* the last call was the execute of a return 0x00EE with no call outstanding:
\* as many returns as calls were executed before it
ReturnedWithNoCallOutstanding ==
    /\ LastCall = "execute"
    /\ Before.opcode = 238
    /\ CallsExecuted(Len(hist) - 1) = ReturnsExecuted(Len(hist) - 1)

\* C12: the execute of a return 0x00EE with no call outstanding (nothing
\* ever pushed, or every pushed address already popped) does not abort the
\* engine: the call returns and the next fetch can be made.
C12_UnderflowReturnDoesNotAbort ==
    ReturnedWithNoCallOutstanding => ~panicked

\* the Option the last call on tstack pushed or returned, after a step
LastValue == tlog'[Len(tlog')].value

\* what a push does to tstack in one step: it returns, the top pointer
\* advances by one and wraps to 0 after slot cap - 1, the slot it pointed at
\* holds the value pushed, and an occupied slot is overwritten in place
PushStep ==
    /\ ~tpanicked'
    /\ tstack'.cap = tstack.cap
    /\ tstack'.tail = (IF tstack.tail = tstack.cap - 1 THEN 0 ELSE tstack.tail + 1)
    /\ tstack'.data[tstack.tail + 1] = LastValue
    /\ Len(tstack'.data) = (IF tstack.tail < Len(tstack.data)
                            THEN Len(tstack.data) ELSE Len(tstack.data) + 1)
    /\ \A i \in 1 .. Len(tstack.data) :
          i # tstack.tail + 1 => tstack'.data[i] = tstack.data[i]

\* C13: on a stack of capacity K, over any sequence of pushes and pops, the
\* top pointer stays in 0 .. K-1 and at most K slots are allocated; every
\* push returns, advances the top pointer by one (to 0 after slot K-1) and
\* stores its value in the slot the pointer was at, overwriting what the
\* slot held.
C13_PushNeverFails ==
    /\ [](tstack.tail \in 0 .. (tstack.cap - 1) /\ Len(tstack.data) <= tstack.cap)
    /\ [][StackPush => PushStep]_vars

\* C13 happens: cap + 1 pushes on a stack of capacity 2 or more; the last
\* one found slot 0 occupied by another value and overwrote it.
C13_Witness ==
    /\ ~tpanicked
    /\ tstack.cap >= 2
    /\ Len(tlog) = tstack.cap + 1
    /\ \A i \in 1 .. Len(tlog) : tlog[i].call = "push"
    /\ tlog[1].value # tlog[Len(tlog)].value
    /\ tstack.data[1] = tlog[Len(tlog)].value
    /\ Len(tstack.data) = tstack.cap
    /\ tstack.tail = 1

\* the number of pushes at the head of tlog
LeadingPushes ==
    Cardinality({i \in 1 .. Len(tlog) :
        \A j \in 1 .. i : tlog[j].call = "push"})

\* the calls on tstack so far are n >= 1 pushes and then between 1 and
\* min(n, cap) pops
PushesThenPops ==
    LET n == LeadingPushes
        j == Len(tlog) - n
    IN  /\ n >= 1
        /\ j >= 1
        /\ j <= n
        /\ j <= tstack.cap
        /\ \A i \in (n + 1) .. Len(tlog) : tlog[i].call = "pop"

\* C15: after n pushes on a new stack of capacity K (n below, at or above
\* K), min(n, K) successive pops return the min(n, K) values pushed last,
\* the last pushed first, and each removes the value it returns.
C15_LifoOverMostRecent ==
    PushesThenPops =>
        LET n == LeadingPushes
        IN  /\ ~tpanicked
            /\ \A i \in 1 .. (Len(tlog) - n) : tlog[n + i].value = tlog[n - i + 1].value

\* what a pop does to tstack in one step, as claimed: it returns; with the
\* top pointer at 0 the pointer stays at 0, and the value returned is what
\* slot 0 held, none when nothing was ever pushed; with the top pointer at
\* t > 0 the pointer becomes t - 1 and the value returned is what slot t - 1
\* held; the slot read holds none afterwards
PopStep ==
    LET prev == IF tstack.tail = 0 THEN 0 ELSE tstack.tail - 1
    IN  /\ ~tpanicked'
        /\ tstack'.tail = prev
        /\ LastValue = (IF prev < Len(tstack.data) THEN tstack.data[prev + 1] ELSE None)
        /\ prev < Len(tstack'.data) => tstack'.data[prev + 1] = None

\* C16: a pop never fails, whether the top pointer is at 0 (slot 0 is read,
\* the pointer stays at 0) or at t > 0 (slot t - 1 is read, the pointer
\* becomes t - 1); the pop of a stack onto which nothing was ever pushed
\* returns none.
C16_PopNeverFails == [][StackPop => PopStep]_vars

\* the program the last load call was given
LoadedProgram == tlog[Len(tlog)].value

\* the last call was a load of a program that fits above MEM_START
LoadedFitting ==
    /\ LastCall = "load"
    /\ tlog # <<>>
    /\ Len(LoadedProgram) <= MEM_SIZE - MEM_START

\* C14: after the load of a program of length L <= 4096 - 0x200,
\* memory[0x200 + i] is program[i] for every i < L, every other byte of
\* memory (below 0x200, and at or above 0x200 + L) is as before, and pc,
\* the registers, I and the stack are as before.
C14_Load ==
    LoadedFitting =>
        LET L == Len(LoadedProgram)
        IN  /\ ~panicked
            /\ \A i \in 0 .. (L - 1) :
                  read_byte(Self, MEM_START + i) = LoadedProgram[i + 1]
            /\ \A a \in 0 .. (MEM_SIZE - 1) :
                  (a < MEM_START \/ a >= MEM_START + L) =>
                      read_byte(Self, a) = read_byte(Before, a)
            /\ pc = Before.pc
            /\ V = Before.V
            /\ I = Before.I
            /\ stack = Before.stack

\* C14 happens: the 3-byte program of test_load was loaded over a 6-byte
\* one, whose last three bytes stayed in memory.
C14_Witness ==
    /\ LoadedFitting
    /\ Len(hist) = 2
    /\ LoadedProgram = <<1, 2, 3>>
    /\ read_byte(Self, MEM_START) = 1
    /\ read_byte(Self, MEM_START + 2) = 3
    /\ read_byte(Self, MEM_START + 3) = 1
    /\ read_byte(Self, MEM_START + 5) = 175
    /\ read_byte(Self, MEM_START + 6) = 0

\* the operands of the opcode m is about to execute
XOf(m) == (m.opcode \div 256) % 16
YOf(m) == (m.opcode \div 16) % 16
NOf(m) == m.opcode % 16

\* the rows and bits (r, b) of the sprite the draw of m reads that are set:
\* bit 7 - b of memory[I + r], for the rows inside memory
SetSpriteBits(m) ==
    {rb \in (0 .. (NOf(m) - 1)) \X (0 .. 7) :
        /\ m.I + rb[1] < MEM_SIZE
        /\ Bit(read_byte(m, m.I + rb[1]), 7 - rb[2]) = 1}

\* the coordinates the draw of m targets: (vx + b, vy + r) for the set bits,
\* with vx = V[x] mod 64 and vy = V[y] mod 32
DrawTargets(m) ==
    {<<(m.V[XOf(m)] % WIDTH) + rb[2], (m.V[YOf(m)] % HEIGHT) + rb[1]>> :
        rb \in SetSpriteBits(m)}

\* the last call was the execute of a draw 0xDxyn, returned or not
ExecuteOfDraw == LastCall = "execute" /\ Before.opcode \div 4096 = 13

\* C17: every coordinate (cx, cy) a draw 0xDxyn targets has cx < 64 and
\* cy < 32, whatever the registers, the height n and the sprite bytes hold,
\* so that a draw whose sprite rows are inside memory returns.
C17_DrawTargetsInGrid ==
    ExecuteOfDraw =>
        /\ \A t \in DrawTargets(Before) : t[1] < WIDTH /\ t[2] < HEIGHT
        /\ (Before.I + NOf(Before) <= MEM_SIZE => ~panicked)

\* a draw 0xDxyn was executed and returned: its targets were all in range
ExecutedDraw == Executed /\ OpN1 = 13

\* the targets of the last draw that read 1 when the draw began; no target
\* is visited twice in one draw
CollidingTargets == DrawTargets(Before) \cap Before.screen.pixels

\* C18: after a draw 0xDxyn with all targets in range, V[0xF] is 1 iff a
\* set sprite bit targeted a pixel that read 1, else 0, whatever V[0xF] held
\* before; the origin is (V[x] mod 64, V[y] mod 32) as the registers were
\* before V[0xF] was reset, also when x or y is 0xF.
C18_DrawCollisionFlag ==
    ExecutedDraw => V[15] = (IF CollidingTargets # {} THEN 1 ELSE 0)

\* C18 happens: a draw with x = 0xF and V[0xF] = 2 met a lit pixel under its
\* first set bit and unlit pixels under later ones, and left V[0xF] = 1.
C18_Witness ==
    /\ ExecutedDraw
    /\ OpX = 15
    /\ Before.V[15] = 2
    /\ <<2, 0>> \in CollidingTargets
    /\ DrawTargets(Before) \ Before.screen.pixels # {}
    /\ V[15] = 1

\* C19: after a draw 0xDxyn with all targets in range, the pixel at
\* (vx + b, vy + r) is toggled iff bit 7 - b of memory[I + r] is set
\* (r < n, b < 8), every other pixel is as before, I, pc, memory, the stack
\* and every register but V[0xF] are as before, and the dirty flag is true,
\* also when n is 0 or no bit is set.
C19_DrawPixelPlacement ==
    ExecutedDraw =>
        /\ \A c \in Cells :
              (c \in screen.pixels) = ((c \in Before.screen.pixels) # (c \in DrawTargets(Before)))
        /\ screen.pixels \subseteq Cells
        /\ I = Before.I
        /\ pc = Before.pc
        /\ memory = Before.memory
        /\ stack = Before.stack
        /\ \A r \in RegIdx \ {15} : V[r] = Before.V[r]
        /\ screen.update_screen = TRUE

\* C19 happens: a draw of the row 0xA2 at (2, 0) turned the lit pixel (2, 0)
\* off and the unlit pixels (4, 0) and (8, 0) on, and left (0, 0) lit.
C19_Witness ==
    /\ ExecutedDraw
    /\ DrawTargets(Before) = {<<2, 0>>, <<4, 0>>, <<8, 0>>}
    /\ Before.screen.pixels = {<<0, 0>>, <<2, 0>>, <<6, 0>>}
    /\ screen.pixels = {<<0, 0>>, <<4, 0>>, <<6, 0>>, <<8, 0>>}
    /\ screen.update_screen

\* C20: over every sequence of load, fetch and execute calls, I changes only
\* in the execute of 0xAnnn, which sets it to nnn; fetch and the execute of
\* every other opcode, draw included, leave it as it was.
C20_IndexFrame ==
    hist # <<>> =>
        IF Executed /\ OpN1 = 10
        THEN I = opcode % 4096
        ELSE I = Before.I

\* C20 happens: the execute of 0xA200 changed I from 0 to 0x200, and a
\* later draw that read its sprite at I left I alone.
C20_Witness ==
    /\ ExecutedDraw
    /\ OpN > 0
    /\ DrawTargets(Before) # {}
    /\ I = 512
    /\ Before.I = 512
    /\ \E i \in 1 .. (Len(hist) - 1) :
          /\ hist[i].call = "execute"
          /\ hist[i].was.opcode = 41472
          /\ hist[i].was.I = 0
          /\ hist[i + 1].was.I = 512

\* the indices of hist at which the framebuffer was flushed, and those at
\* which the execute of a draw 0xDxyn returned
Flushes == {i \in 1 .. Len(hist) : hist[i].call = "draw"}
DrawsExecuted ==
    {i \in 1 .. (Len(hist) - 1) :
        /\ hist[i].call = "execute"
        /\ hist[i].was.opcode \div 4096 = 13
        /\ ~hist[i + 1].was.panicked}

\* the dirty flag as the execute of the iteration that just ended left it
DirtyAfterExecute ==
    LET n == Len(hist)
        k == IF hist[n - 1].call = "execute" THEN n - 1 ELSE n - 2
    IN  hist[k + 1].was.screen.update_screen

\* C21: in every iteration of the driver's loop fetch runs before execute;
\* the framebuffer is flushed to the canvas in the iteration iff the dirty
\* flag is true after the execute; the dirty flag is false at the end of
\* every iteration, and there are no more flushes than draws executed.
C21_DriverFlushProtocol ==
    /\ LastCall = "execute" =>
          /\ hist[Len(hist) - 1].call = "fetch"
          /\ hist[Len(hist) - 2].call = "tick"
    /\ LastCall = "draw" =>
          /\ hist[Len(hist) - 1].call = "execute"
          /\ screen.canvas.white = screen.pixels
    /\ LastCall = "sleep" =>
          /\ ~screen.update_screen
          /\ (hist[Len(hist) - 1].call = "draw") = DirtyAfterExecute
          /\ hist[Len(hist) - 1].call \in {"draw", "execute"}
    /\ Cardinality(Flushes) <= Cardinality(DrawsExecuted)

\* C21 happens: one iteration drew a sprite and flushed it to the canvas,
\* and the next iteration ended without a flush.
C21_Witness ==
    /\ LastCall = "sleep"
    /\ hist[Len(hist) - 1].call = "execute"
    /\ Cardinality(Flushes) = 1
    /\ screen.canvas.white # {}
    /\ screen.canvas.white = screen.pixels
    /\ ~screen.update_screen

\* no call was made yet on the engine: it is as its construction left it
NewlyConstructed == hist = <<>>

ExecutedRegisterLogic == Executed /\ OpN1 = 8 /\ OpN \in 0 .. 3

\* bit i of what 0x8xyN is to leave in V[x], from bit p of V[x] and bit q of
\* V[y]: move, OR, AND, XOR
LogicBit(k, p, q) ==
    CASE k = 0 -> q
      [] k = 1 -> IF p = 1 \/ q = 1 THEN 1 ELSE 0
      [] k = 2 -> IF p = 1 /\ q = 1 THEN 1 ELSE 0
      [] k = 3 -> IF p # q THEN 1 ELSE 0

\* C23: 0x8xy0, 0x8xy1, 0x8xy2, 0x8xy3 set V[x] to V[y], V[x] OR V[y],
\* V[x] AND V[y], V[x] XOR V[y], bit by bit over 8 bits, for all x and y, and
\* leave every other register (V[0xF] too when x is not 0xF), pc, I, the
\* stack and the framebuffer as they were.
C23_RegisterLogic ==
    ExecutedRegisterLogic =>
        /\ V[OpX] \in 0 .. 255
        /\ \A i \in 0 .. 7 :
              Bit(V[OpX], i) = LogicBit(OpN, Bit(Before.V[OpX], i), Bit(Before.V[OpY], i))
        /\ \A r \in RegIdx \ {OpX} : V[r] = Before.V[r]
        /\ pc = Before.pc
        /\ I = Before.I
        /\ stack = Before.stack
        /\ screen = Before.screen

\* C23 happens: 0x8013 with V[0] = 1 and V[1] = 255 left V[0] = 254.
C23_Witness ==
    /\ ExecutedRegisterLogic
    /\ OpN = 3
    /\ OpX = 0
    /\ Before.V[0] = 1
    /\ Before.V[OpY] = 255
    /\ V[0] = 254
    /\ V[15] = Before.V[15]

\* the number of entries outstanding on tstack after its first k calls:
\* pushes minus pops
Outstanding(k) ==
    Cardinality({i \in 1 .. k : tlog[i].call = "push"})
        - Cardinality({i \in 1 .. k : tlog[i].call = "pop"})

\* the push matching the pop at index n of tlog: the last push before it
\* that no pop in between took back
MatchingPush(n) ==
    CHOOSE j \in 1 .. (n - 1) :
        /\ tlog[j].call = "push"
        /\ Outstanding(j) = Outstanding(n) + 1
        /\ \A i \in j .. (n - 1) : Outstanding(i) >= Outstanding(j)

\* the number of calls outstanding on the engine after the first k calls
\* made on it: executed calls 0x2nnn minus executed returns 0x00EE
Depth(k) == CallsExecuted(k) - ReturnsExecuted(k)

\* the execute of the call matching the return executed at index n of hist
MatchingCall(n) ==
    CHOOSE j \in 1 .. (n - 1) :
        /\ hist[j].call = "execute"
        /\ hist[j].was.opcode \div 4096 = 2
        /\ Depth(j) = Depth(n) + 1
        /\ \A i \in j .. (n - 1) : Depth(i) >= Depth(j)

\* C24: while the number of outstanding entries of a stack of capacity K
\* stays between 0 and K - 1 and no pop is made with none outstanding, every
\* pop returns the value of its matching push; on the engine, while fewer
\* than K calls are outstanding, every return sets pc to the address after
\* its matching call.
C24_StrictLifoBelowCapacity ==
    /\ (\A k \in 1 .. Len(tlog) : Outstanding(k) \in 0 .. (tstack.cap - 1)) =>
          /\ ~tpanicked
          /\ \A n \in 1 .. Len(tlog) :
                tlog[n].call = "pop" => tlog[n].value = tlog[MatchingPush(n)].value
    /\ (\A k \in 1 .. Len(hist) : Depth(k) \in 0 .. (stack.cap - 1)) =>
          \A n \in 1 .. Len(hist) :
              (hist[n].call = "execute" /\ hist[n].was.opcode = 238) =>
                  /\ n = Len(hist) => ~panicked
                  /\ (IF n = Len(hist) THEN pc ELSE hist[n + 1].was.pc)
                        = hist[MatchingCall(n)].was.pc

\* C24 happens on a stack: two values pushed, both popped, last first, and
\* a third pushed and popped.
C24_Witness ==
    /\ ~tpanicked
    /\ Len(tlog) = 5
    /\ tlog[1].call = "push" /\ tlog[2].call = "push"
    /\ tlog[3].call = "pop" /\ tlog[4].call = "pop"
    /\ tlog[5].call = "push"
    /\ tlog[1].value # tlog[2].value
    /\ tlog[3].value = tlog[2].value
    /\ tlog[4].value = tlog[1].value

\* C24 happens on the engine: two nested calls, at 0x200 and 0x202, and two
\* returns, the first to 0x204 and the second to 0x202.
C24_EngineWitness ==
    /\ Executed
    /\ opcode = 238
    /\ Len(hist) = 9
    /\ Depth(Len(hist)) = 0
    /\ Depth(5) = 2
    /\ Before.pc = 518
    /\ hist[8].was.pc = 516
    /\ pc = 514

\* C25: in every state reached by fetch and execute from a loaded engine,
\* every address read is below 4096: pc + 1 < 4096 at every fetch, and
\* I + r < 4096 for every sprite row r < n of a draw whose targets are all
\* in range.
C25_MemoryReadsInBounds ==
    /\ LastCall = "fetch" => (Before.pc + 1 < MEM_SIZE /\ ~panicked)
    /\ (ExecuteOfDraw /\ \A t \in DrawTargets(Before) : in_grid(t[1], t[2])) =>
          /\ \A r \in 0 .. (NOf(Before) - 1) : Before.I + r < MEM_SIZE
          /\ ~panicked

\* the engine as the load left it
Loaded == IF Len(hist) >= 2 THEN hist[2].was ELSE Self

\* C26: no fetch and no execute changes a byte of memory or the delay
\* timer: after the load, memory stays the loaded image over any number of
\* cycles and the bytes below 0x200 stay 0.
C26_MemoryReadOnly ==
    /\ LastCall \in {"fetch", "execute"} =>
          /\ \A a \in DOMAIN memory \cup DOMAIN Before.memory :
                read_byte(Self, a) = read_byte(Before, a)
          /\ delay_timer = Before.delay_timer
    /\ hist # <<>> =>
          /\ memory = Loaded.memory
          /\ delay_timer = Loaded.delay_timer
          /\ \A a \in 0 .. (MEM_START - 1) : read_byte(Self, a) = 0

\* C26 happens: after the execute of a set-imm or a set-index and of a draw
\* that changed the framebuffer, memory is the image loaded.
C26_Witness ==
    /\ Executed
    /\ Len(hist) >= 7
    /\ OpN1 = 13
    /\ \E i \in 1 .. Len(hist) :
          hist[i].call = "execute" /\ hist[i].was.opcode \div 4096 \in {6, 10}
    /\ memory # <<>>
    /\ memory = Loaded.memory
    /\ screen.pixels # Loaded.screen.pixels
====
